---- MODULE Spec2Model ----
(***************************************************************************)
(* State-machine model of src/main.js (first variant, lines 1-436): the    *)
(* AIS stream websocket lifecycle (connect / open / message / error /      *)
(* close / reconnect timer), the Payload CMS session manager               *)
(* (ensureCmsSession / loginToCms / performAuthorizedRequest) and the      *)
(* persistence path (persistPositionReport / shouldPersistPositionReport). *)
(*                                                                         *)
(* Granularity: one action is one event-loop task together with the        *)
(* microtasks it drains.  An async function therefore runs inside an       *)
(* action until it reaches an await on network I/O (fetch, body read) or   *)
(* on the pending login promise; the continuation is a later action.       *)
(* Time is counted in hours (Date.now() is the variable clock).            *)
(***************************************************************************)
EXTENDS Integers, Sequences, FiniteSets, TLC

\* ---------------------------------------------------------------- bounds
MaxSockets == 3      \* sockets ever created by connect()
MaxMsgs == 2         \* position reports ever received
MaxLogins == 3       \* login requests ever sent
MaxClock == 4        \* last hour the clock reaches
TickHours == 4       \* hours per clock step
MaxTicks == 2        \* inactivity-interval firings counted
MaxAttempts == 10    \* failed connection attempts in a row before the first state

\* ------------------------------------------------------ program constants
MaxDelay == 30000
BaseDelay == 1000
InactivityStep == 60
RecentHours == 6
WindowHours == 12

Sockets == 1..MaxSockets
Msgs == 1..MaxMsgs
Logins == 1..MaxLogins

AuthFail == {401, 403}
Statuses == {200, 401, 403, 500}
IsOk(status) == status >= 200 /\ status <= 299

\* Position reports the stream delivers (Latitude, Longitude differ so that
\* the component order of a stored location is observable).
Reports == {[Latitude |-> 1, Longitude |-> 2], [Latitude |-> 2, Longitude |-> 1]}
NoReport == [Latitude |-> 0, Longitude |-> 0]
\* event.data of a message: text that is not JSON, JSON without
\* Message.PositionReport, or a position report.
Inputs ==
  {[kind |-> k, pr |-> NoReport] : k \in {"invalid_json", "other_shape"}}
    \cup {[kind |-> "PositionReport", pr |-> p] : p \in Reports}

\* Process configurations (environment variables).
Configs ==
  { [key |-> TRUE, host |-> TRUE, creds |-> TRUE],
    [key |-> TRUE, host |-> TRUE, creds |-> FALSE],
    [key |-> TRUE, host |-> FALSE, creds |-> TRUE],
    [key |-> FALSE, host |-> FALSE, creds |-> TRUE] }

\* Entries the store may hold before the process starts (by = 0).  The clock
\* starts at hour 0, so these were created 9 and 6 hours before the start.
OldDocs ==
  { [location |-> <<2, 1>>, createdAt |-> 0 - 9, by |-> 0, arrived |-> 0 - 9],
    [location |-> <<2, 1>>, createdAt |-> 0 - 6, by |-> 0, arrived |-> 0 - 6] }
InitialStores == {{}} \cup {{d} : d \in OldDocs}

VARIABLES
  cfg,                   \* process.env: AIS_STREAM_KEY, CMS_HOST_URL, CMS_EMAIL/PASSWORD
  socket,                \* id of the socket the variable socket refers to
  readyState,            \* readyState of every socket created so far
  isSocketOpen,
  minutesWaited,
  reconnectTimer,        \* TRUE when the variable holds a timeout handle
  timeouts,              \* delays of the reconnect timeouts that are armed
  reconnectAttempts,
  inactivityTimer,       \* TRUE when the variable holds an interval handle
  inactivityIntervals,   \* number of inactivity intervals that are running
  pingTimer,             \* TRUE when the variable holds an interval handle
  pingIntervals,         \* number of ping intervals that are running
  subscriptions,         \* subscriptions sent on each socket
  missingCmsHostWarned,
  missingCmsCredsWarned,
  cmsAuthToken,          \* 0 is null, otherwise the token
  pendingCmsLogin,       \* 0 is null, otherwise the login promise
  logins,                \* state of every login promise created so far
  delivered,             \* per login promise, the values its awaiters received
  handlers,              \* one record per handleMessage invocation for a report
  nextMsg,               \* index of the next report to arrive
  store,                 \* documents of the downstream collection
  clock,                 \* Date.now(), in hours
  ticks,                 \* inactivity-interval firings so far
  unhandledRejection,    \* a promise rejected with no handler attached
  alive                  \* the process is running

connVars == <<socket, readyState, isSocketOpen, minutesWaited, reconnectTimer,
              timeouts, reconnectAttempts, inactivityTimer, inactivityIntervals,
              pingTimer, pingIntervals, subscriptions>>
sessVars == <<missingCmsHostWarned, missingCmsCredsWarned, cmsAuthToken,
              pendingCmsLogin, logins, delivered, handlers, nextMsg,
              unhandledRejection, alive>>
vars == <<cfg, connVars, sessVars, store, clock, ticks>>

Min(a, b) == IF a <= b THEN a ELSE b

RECURSIVE Pow2(_)
Pow2(n) == IF n = 0 THEN 1 ELSE 2 * Pow2(n - 1)

\* ------------------------------------------------------------- connection

\* new WebSocket(STREAM_URL) and the four handler assignments
connect ==
  /\ socket' = socket + 1
  /\ readyState' = [readyState EXCEPT ![socket + 1] = "CONNECTING"]

\* line 93
ReconnectDelayUncapped(attempts) == BaseDelay * Pow2(attempts)

ReconnectDelay(attempts) == Min(MaxDelay, BaseDelay * Pow2(attempts))

scheduleReconnectNever == UNCHANGED <<reconnectTimer, timeouts>>

scheduleReconnectUnguarded ==
  /\ reconnectTimer' = TRUE
  /\ timeouts' = Append(timeouts, ReconnectDelay(reconnectAttempts))

scheduleReconnect ==
  IF reconnectTimer
  THEN UNCHANGED <<reconnectTimer, timeouts>>
  ELSE /\ reconnectTimer' = TRUE
       /\ timeouts' = Append(timeouts, ReconnectDelay(reconnectAttempts))

\* startInactivityTimer: clearInterval on the held handle, then setInterval
startInactivityTimer ==
  /\ inactivityTimer' = TRUE
  /\ inactivityIntervals' =
       (IF inactivityTimer THEN inactivityIntervals - 1 ELSE inactivityIntervals) + 1

clearInactivityTimer ==
  IF ~inactivityTimer
  THEN UNCHANGED <<inactivityTimer, inactivityIntervals>>
  ELSE /\ inactivityTimer' = FALSE
       /\ inactivityIntervals' = inactivityIntervals - 1

\* sendSubscription, called from handleOpen: reads the variable socket
sendSubscription ==
  IF ~cfg.key
  THEN UNCHANGED <<subscriptions, inactivityTimer, inactivityIntervals>>
  ELSE IF socket = 0 \/ readyState'[socket] # "OPEN"
  THEN UNCHANGED <<subscriptions, inactivityTimer, inactivityIntervals>>
  ELSE /\ subscriptions' = [subscriptions EXCEPT ![socket] = @ + 1]
       /\ startInactivityTimer

\* the open event of socket s
handleOpen(s) ==
  /\ alive
  /\ readyState[s] = "CONNECTING"
  /\ readyState' = [readyState EXCEPT ![s] = "OPEN"]
  /\ isSocketOpen' = TRUE
  /\ minutesWaited' = 0
  /\ reconnectAttempts' = 0
  /\ pingTimer' = TRUE
  /\ pingIntervals' = pingIntervals + 1
  /\ sendSubscription
  /\ UNCHANGED <<cfg, socket, reconnectTimer, timeouts, sessVars, store, clock, ticks>>

\* the close event of socket s
handleClose(s) ==
  /\ alive
  /\ readyState[s] \in {"OPEN", "CLOSING"}
  /\ readyState' = [readyState EXCEPT ![s] = "CLOSED"]
  /\ isSocketOpen' = FALSE
  /\ clearInactivityTimer
  /\ pingTimer' = FALSE
  /\ pingIntervals' = IF pingTimer THEN pingIntervals - 1 ELSE pingIntervals
  /\ scheduleReconnect
  /\ UNCHANGED <<cfg, socket, minutesWaited, reconnectAttempts, subscriptions,
                 sessVars, store, clock, ticks>>

\* the error event of socket s; the transport then closes the socket, the
\* close event follows as its own task
handleError(s) ==
  /\ alive
  /\ readyState[s] \in {"CONNECTING", "OPEN"}
  /\ readyState' = [readyState EXCEPT ![s] = "CLOSING"]
  /\ scheduleReconnect
  /\ UNCHANGED <<cfg, socket, isSocketOpen, minutesWaited, reconnectAttempts,
                 inactivityTimer, inactivityIntervals, pingTimer, pingIntervals,
                 subscriptions, sessVars, store, clock, ticks>>

\* the callback of an armed reconnect timeout
ReconnectTimerFires(k) ==
  /\ alive
  /\ k \in 1..Len(timeouts)
  /\ socket < MaxSockets
  /\ timeouts' = [j \in 1..(Len(timeouts) - 1) |->
                    IF j < k THEN timeouts[j] ELSE timeouts[j + 1]]
  /\ reconnectTimer' = FALSE
  /\ reconnectAttempts' = reconnectAttempts + 1
  /\ connect
  /\ UNCHANGED <<cfg, isSocketOpen, minutesWaited, inactivityTimer,
                 inactivityIntervals, pingTimer, pingIntervals, subscriptions,
                 sessVars, store, clock, ticks>>

\* the callback of a running inactivity interval
InactivityTick ==
  /\ alive
  /\ inactivityIntervals > 0
  /\ ticks < MaxTicks
  /\ ticks' = ticks + 1
  /\ minutesWaited' = minutesWaited + InactivityStep
  /\ UNCHANGED <<cfg, socket, readyState, isSocketOpen, reconnectTimer, timeouts,
                 reconnectAttempts, inactivityTimer, inactivityIntervals, pingTimer,
                 pingIntervals, subscriptions, sessVars, store, clock>>

\* time passes
Tick ==
  /\ alive
  /\ clock + TickHours <= MaxClock
  /\ clock' = clock + TickHours
  /\ UNCHANGED <<cfg, connVars, sessVars, store, ticks>>

\* ---------------------------------------------------------------- session
(***************************************************************************)
(* The async functions are operators on a record st of the session state:  *)
(* tok (cmsAuthToken), pend (pendingCmsLogin), logins, hs (handlers),      *)
(* hostW / credW (the warned flags) and ovf (a login was needed beyond     *)
(* MaxLogins; actions that would need it are disabled).  An operator       *)
(* applied to handler i runs i's code up to its next suspension.           *)
(***************************************************************************)
IdleHandler ==
  [pc |-> "idle", stage |-> "none", pr |-> NoReport, arrived |-> 0, login |-> 0,
   calls |-> 0, now |-> 0, first |-> 0, ret |-> 0, reauth |-> "none",
   tokenSent |-> 0, docs |-> {}, body |-> "none", decision |-> "none",
   qfail |-> FALSE, outcome |-> "none"]

Waits == {"auth_wait", "par_auth_wait", "par_reauth_wait"}
Running(h) == h.pc \notin {"idle", "done"}

Session ==
  [tok |-> cmsAuthToken, pend |-> pendingCmsLogin, logins |-> logins,
   delivered |-> delivered, hs |-> handlers, hostW |-> missingCmsHostWarned,
   credW |-> missingCmsCredsWarned, ovf |-> FALSE]

SetSession(st) ==
  /\ ~st.ovf
  /\ cmsAuthToken' = st.tok
  /\ pendingCmsLogin' = st.pend
  /\ logins' = st.logins
  /\ delivered' = st.delivered
  /\ handlers' = st.hs
  /\ missingCmsHostWarned' = st.hostW
  /\ missingCmsCredsWarned' = st.credW

NumLogins(st) == Cardinality({l \in Logins : st.logins[l] # "none"})

\* the function returns (or its error is caught and logged) and handleMessage
\* ends; the locals of the finished call are dropped
Done(st, i, outcome) ==
  [st EXCEPT !.hs[i] = [IdleHandler EXCEPT !.pc = "done", !.outcome = outcome,
                                           !.decision = st.hs[i].decision,
                                           !.qfail = st.hs[i].qfail]]

warnMissingCmsHost(st) == [st EXCEPT !.hostW = TRUE]
warnMissingCmsCreds(st) == [st EXCEPT !.credW = TRUE]

\* ensureCmsSession, line 414: the test that guards the creation of a login
NoLoginPendingAlways(pend) == TRUE

NoLoginPending(pend) == pend = 0

\* ensureCmsSession called by handler i, which awaits the result at waitPc.
\* When the function returns without a pending login (cached token, or null
\* for missing configuration) the caller goes on in the same task: its pc is
\* left as it was.
ensureCmsSession(st, i, waitPc) ==
  IF st.tok # 0 THEN st
  ELSE IF ~cfg.host THEN warnMissingCmsHost(st)
  ELSE IF ~cfg.creds THEN warnMissingCmsCreds(st)
  ELSE IF NoLoginPending(st.pend)
  THEN \* pendingCmsLogin = (async () => { await loginToCms(); ... })()
       \* loginToCms runs up to its fetch of cmsLoginUrl
       IF NumLogins(st) >= MaxLogins THEN [st EXCEPT !.ovf = TRUE]
       ELSE LET id == NumLogins(st) + 1 IN
            [st EXCEPT !.pend = id, !.logins[id] = "inflight",
                       !.hs[i].pc = waitPc, !.hs[i].login = id]
  ELSE [st EXCEPT !.hs[i].pc = waitPc, !.hs[i].login = st.pend]

\* requestFactory(): fetchRecentLogs or postAisLog, with the Authorization
\* header built from cmsAuthToken at the moment of the call
requestFactoryStale(st, i) ==
  [st EXCEPT !.hs[i].pc = "req_wait", !.hs[i].calls = @ + 1,
             !.hs[i].tokenSent = IF st.hs[i].calls = 0 THEN st.tok ELSE @]

requestFactory(st, i) ==
  [st EXCEPT !.hs[i].pc = "req_wait", !.hs[i].calls = @ + 1,
             !.hs[i].tokenSent = st.tok]

RECURSIVE performAuthorizedRequest(_, _)

\* lines 302-325: shouldPersist is true, the write is attempted
postAisLogStart(st, i) ==
  performAuthorizedRequest(
    [st EXCEPT !.hs[i].stage = "write", !.hs[i].decision = "allow",
               !.hs[i].now = 0, !.hs[i].docs = {}, !.hs[i].body = "none"], i)

\* shouldPersistPositionReport returns true because the query failed:
\* lines 213-216, 218-224, 229-232
queryFailed(st, i) ==
  postAisLogStart([st EXCEPT !.hs[i].qfail = TRUE], i)

\* an error thrown inside performAuthorizedRequest reaches the catch of the
\* caller: line 213 for the query, line 333 for the write
parThrow(st, i, err) ==
  IF st.hs[i].stage = "query" THEN queryFailed(st, i) ELSE Done(st, i, err)

\* lines 156-160
parAfterAuth(st, i) ==
  IF st.tok = 0 THEN parThrow(st, i, "missing_token")
  ELSE requestFactory(st, i)

\* lines 166-172
parAfterReauth(st, i) ==
  IF st.tok = 0 THEN parThrow(st, i, "missing_token_after_reauth")
  ELSE requestFactory(st, i)

\* lines 151-160, for the request of hs[i].stage
performAuthorizedRequest(st, i) ==
  LET s0 == [st EXCEPT !.hs[i].calls = 0, !.hs[i].first = 0, !.hs[i].ret = 0,
                       !.hs[i].reauth = "none", !.hs[i].tokenSent = 0]
      s1 == IF s0.tok = 0 THEN ensureCmsSession(s0, i, "par_auth_wait") ELSE s0
  IN IF s1.ovf \/ s1.hs[i].pc = "par_auth_wait" THEN s1 ELSE parAfterAuth(s1, i)

\* shouldPersistPositionReport, lines 178-212
shouldPersistPositionReport(st, i) ==
  IF ~cfg.host THEN Done(warnMissingCmsHost(st), i, "no_config")
  ELSE IF st.tok = 0 THEN postAisLogStart(st, i)
  ELSE performAuthorizedRequest(
         [st EXCEPT !.hs[i].stage = "query", !.hs[i].now = clock], i)

\* persistPositionReport, lines 289-304
persistAfterAuth(st, i) ==
  IF st.tok = 0 THEN Done(st, i, "no_token")
  ELSE shouldPersistPositionReport(st, i)

\* persistPositionReport, lines 271-287
persistPositionReport(st, i) ==
  IF ~cfg.host THEN Done(warnMissingCmsHost(st), i, "no_config")
  ELSE IF ~cfg.creds THEN Done(warnMissingCmsCreds(st), i, "no_config")
  ELSE LET s1 == ensureCmsSession([st EXCEPT !.hs[i].pc = "run"], i, "auth_wait")
       IN IF s1.ovf \/ s1.hs[i].pc = "auth_wait" THEN s1 ELSE persistAfterAuth(s1, i)

\* line 162 is an if, not a loop: only the response to the first call of
\* requestFactory is examined for 401/403
ExaminedForAuthAlways(calls) == TRUE

ExaminedForAuth(calls) == calls = 1

\* performAuthorizedRequest returns the response to its caller, which reads
\* the body (lines 219, 228, 328) unless the write succeeded
parReturn(st, i, r) ==
  LET s0 == [st EXCEPT !.hs[i].ret = r] IN
  IF s0.hs[i].stage = "write" /\ IsOk(r) THEN Done(s0, i, "persisted")
  ELSE [s0 EXCEPT !.hs[i].pc = "body_wait"]

\* lines 160-175 resumed by the settled fetch of requestFactory; r = 0 is a
\* rejected fetch (network error), otherwise r is the response status
onResponse(st, i, r) ==
  IF r = 0 THEN parThrow(st, i, "request_failed")
  ELSE LET c == st.hs[i].calls
           s0 == [st EXCEPT !.hs[i].first = IF c = 1 THEN r ELSE @]
       IN IF r \in AuthFail /\ ExaminedForAuth(c)
          THEN LET s1 == ensureCmsSession([s0 EXCEPT !.tok = 0], i, "par_reauth_wait")
               IN IF s1.ovf \/ s1.hs[i].pc = "par_reauth_wait" THEN s1
                  ELSE parAfterReauth(s1, i)
          ELSE parReturn(s0, i, r)

\* lines 236-242
hasRecentLogStrict(docs, now) ==
  \E d \in docs : d.createdAt > now - RecentHours

hasRecentLog(docs, now) ==
  \E d \in docs : d.createdAt >= now - RecentHours

\* lines 244-254
hasSameLocation(docs, pr) ==
  \E d \in docs : /\ Len(d.location) >= 2
                  /\ d.location[1] = pr.Latitude
                  /\ d.location[2] = pr.Longitude

\* line 316: the location of the record that postAisLog sends
WrittenLocation(pr) == <<pr.Longitude, pr.Latitude>>

\* lines 234-268
decide(st, i) ==
  LET h == st.hs[i] IN
  IF hasRecentLog(h.docs, h.now)
  THEN Done([st EXCEPT !.hs[i].decision = "reject"], i, "skipped_recent")
  ELSE IF hasSameLocation(h.docs, h.pr)
  THEN Done([st EXCEPT !.hs[i].decision = "reject"], i, "skipped_same_location")
  ELSE postAisLogStart(st, i)

\* the awaited body read settles: response.text() of line 219 or 328,
\* response.json() of line 228.  hs[i].body is "ok", "unparsable" (json()
\* rejects on a body that is not JSON) or "read_error" (the body stream fails).
onBody(st, i) ==
  LET h == st.hs[i] IN
  IF h.stage = "write" THEN Done(st, i, "write_failed")
  ELSE IF ~IsOk(h.ret)
  THEN IF h.body = "read_error"
       THEN Done([st EXCEPT !.hs[i].qfail = TRUE], i, "dedup_error")
       ELSE queryFailed(st, i)
  ELSE IF h.body # "ok" THEN queryFailed(st, i)
  ELSE decide(st, i)

\* line 164: the awaited ensureCmsSession rejects with the error of
\* loginToCms, which leaves performAuthorizedRequest before line 166
reauthRejectedRetries(st, i) == requestFactory(st, i)

reauthRejected(st, i) == parThrow(st, i, "reauth_login_failed")

\* the continuation of handler i, which awaited login promise id; the value
\* it receives is the one line 417 returned (cmsAuthToken, just set at line
\* 394) or the login error (0)
resume(st, i, id, ok) ==
  LET w == st.hs[i].pc
      s0 == [st EXCEPT !.delivered[id] = @ \cup {IF ok THEN st.tok ELSE 0},
                       !.hs[i].login = 0, !.hs[i].pc = "run"]
  IN IF w = "auth_wait"
     THEN IF ok THEN persistAfterAuth(s0, i) ELSE Done(s0, i, "auth_failed")
     ELSE IF w = "par_auth_wait"
     THEN IF ok THEN parAfterAuth(s0, i) ELSE parThrow(s0, i, "auth_failed")
     ELSE IF ok THEN parAfterReauth([s0 EXCEPT !.hs[i].reauth = "ok"], i)
          ELSE reauthRejected([s0 EXCEPT !.hs[i].reauth = "fail"], i)

\* the reactions of the settled login promise id run in the same task, for the
\* waiting handlers from i upwards
RECURSIVE resumeAll(_, _, _, _)
resumeAll(st, i, id, ok) ==
  IF i > MaxMsgs \/ st.ovf THEN st
  ELSE IF st.hs[i].pc \in Waits /\ st.hs[i].login = id
  THEN resumeAll(resume(st, i, id, ok), i + 1, id, ok)
  ELSE resumeAll(st, i + 1, id, ok)

\* lines 419-421: the value of pendingCmsLogin once the login promise settled
ClearedPendingOnSuccess(pend, ok) == IF ok THEN 0 ELSE pend

ClearedPending(pend, ok) == 0

\* loginToCms lines 380-397 and the settling of the promise created at line
\* 415: on success the token is cached; the finally callback of line 419
\* clears pendingCmsLogin before the awaiting callers continue
loginSettled(st, id, ok) ==
  resumeAll([st EXCEPT !.tok = IF ok THEN id ELSE @,
                       !.pend = ClearedPending(st.pend, ok),
                       !.logins[id] = IF ok THEN "ok" ELSE "fail"],
            1, id, ok)

\* ----------------------------------------------------------------- actions

\* line 135: JSON.parse(event.data) returns
ParsesAlways(data) == TRUE

Parses(data) == data.kind # "invalid_json"

\* line 140: aisMessage?.Message?.PositionReport is truthy
HasPositionReportLoose(data) == data.kind # "invalid_json"

HasPositionReport(data) == data.kind = "PositionReport"

\* handleMessage for a message of socket s with event.data = data
handleMessage(s, data) ==
  /\ alive
  /\ readyState[s] = "OPEN"
  /\ minutesWaited' = IF Parses(data) THEN 0 ELSE minutesWaited
  /\ IF Parses(data) /\ HasPositionReport(data)
     THEN /\ nextMsg <= MaxMsgs
          /\ nextMsg' = nextMsg + 1
          /\ SetSession(persistPositionReport(
               [Session EXCEPT !.hs[nextMsg].pr = data.pr,
                               !.hs[nextMsg].arrived = clock], nextMsg))
     ELSE UNCHANGED <<missingCmsHostWarned, missingCmsCredsWarned, cmsAuthToken,
                      pendingCmsLogin, logins, delivered, handlers, nextMsg>>
  /\ UNCHANGED <<cfg, socket, readyState, isSocketOpen, reconnectTimer, timeouts,
                 reconnectAttempts, inactivityTimer, inactivityIntervals, pingTimer,
                 pingIntervals, subscriptions, unhandledRejection, alive, store,
                 clock, ticks>>

LoginOutcomes == {"token", "no_token", "rejected", "network_error"}

\* the login request of promise id settles.  A failed login rejects the
\* promise returned by pendingCmsLogin.finally(...) (line 419), which has no
\* handler: the runtime reports an unhandled rejection and, depending on its
\* unhandled-rejections mode, ends the process (exits = TRUE) or goes on.
LoginResponse(id, outcome, exits) ==
  /\ alive
  /\ logins[id] = "inflight"
  /\ LET ok == outcome = "token" IN
     /\ ok => ~exits
     /\ SetSession(loginSettled(Session, id, ok))
     /\ unhandledRejection' = (unhandledRejection \/ ~ok)
     /\ alive' = ~exits
  /\ UNCHANGED <<cfg, connVars, nextMsg, store, clock, ticks>>

\* the documents the store returns for the query handler h sent
QueryResult(h) == {d \in store : d.createdAt >= h.now - WindowHours}

Bodies == {"none", "ok", "unparsable", "read_error"}

\* the fetch of handler i settles: r = 0 rejects, otherwise r is the status
\* and b the body that comes with it.  Only the bodies the code can tell
\* apart are drawn: a rejected fetch has none, text() fails on a read error
\* only, and every body of a failed write ends in the same catch.
Response(i, r, b) ==
  /\ alive
  /\ handlers[i].pc = "req_wait"
  /\ (r = 0 \/ handlers[i].stage = "write") => b = "none"
  /\ (r # 0 /\ handlers[i].stage = "query") => b # "none"
  /\ (handlers[i].stage = "query" /\ ~IsOk(r)) => b # "unparsable"
  /\ LET h == handlers[i]
         docs == IF h.stage = "query" /\ IsOk(r) /\ b = "ok" THEN QueryResult(h) ELSE {}
     IN /\ store' = IF h.stage = "write" /\ IsOk(r)
                    THEN store \cup {[location |-> WrittenLocation(h.pr),
                                      createdAt |-> clock, by |-> i,
                                      arrived |-> h.arrived]}
                    ELSE store
        /\ SetSession(onResponse([Session EXCEPT !.hs[i].docs = docs,
                                                 !.hs[i].body = b], i, r))
  /\ UNCHANGED <<cfg, connVars, nextMsg, unhandledRejection, alive, clock, ticks>>

\* the body read of handler i settles
Body(i) ==
  /\ alive
  /\ handlers[i].pc = "body_wait"
  /\ SetSession(onBody(Session, i))
  /\ UNCHANGED <<cfg, connVars, nextMsg, unhandledRejection, alive, store, clock, ticks>>

\* the state once the module has been evaluated: connect() of line 436 has run
InitState ==
  /\ socket = 1
  /\ readyState = [s \in Sockets |-> IF s = 1 THEN "CONNECTING" ELSE "NONE"]
  /\ isSocketOpen = FALSE
  /\ minutesWaited = 0
  /\ reconnectTimer = FALSE
  /\ timeouts = <<>>
  /\ reconnectAttempts = 0
  /\ inactivityTimer = FALSE
  /\ inactivityIntervals = 0
  /\ pingTimer = FALSE
  /\ pingIntervals = 0
  /\ subscriptions = [s \in Sockets |-> 0]
  /\ missingCmsHostWarned = FALSE
  /\ missingCmsCredsWarned = FALSE
  /\ cmsAuthToken = 0
  /\ pendingCmsLogin = 0
  /\ logins = [l \in Logins |-> "none"]
  /\ delivered = [l \in Logins |-> {}]
  /\ handlers = [i \in Msgs |-> IdleHandler]
  /\ nextMsg = 1
  /\ clock = 0
  /\ ticks = 0
  /\ unhandledRejection = FALSE
  /\ alive = TRUE

(***************************************************************************)
(* The persistence path reads and writes no connection variable except     *)
(* minutesWaited, and the connection handlers read and write no session    *)
(* variable, so the two halves are explored in separate specifications.    *)
(*                                                                         *)
(* SpecConnection: every transport event in every order; CMS_HOST_URL is   *)
(* not configured, so persistPositionReport returns at line 272.           *)
(* SpecPersistence: the CMS is configured and answers in every way; the    *)
(* first socket opens and stays open.                                      *)
(***************************************************************************)
InitConnection ==
  /\ cfg \in {c \in Configs : ~c.host}
  /\ store = {}
  /\ InitState

NextConnection ==
  \/ \E s \in Sockets : handleOpen(s)
  \/ \E s \in Sockets : handleClose(s)
  \/ \E s \in Sockets : handleError(s)
  \/ \E k \in 1..MaxSockets : ReconnectTimerFires(k)
  \/ InactivityTick
  \/ \E s \in Sockets, data \in Inputs : handleMessage(s, data)

SpecConnection == InitConnection /\ [][NextConnection]_vars

InitPersistence ==
  /\ cfg \in {c \in Configs : c.host /\ c.key}
  /\ store \in InitialStores
  /\ InitState

NextPersistence ==
  \/ handleOpen(1)
  \/ Tick
  \/ \E data \in Inputs : handleMessage(1, data)
  \/ \E id \in Logins, o \in LoginOutcomes, e \in BOOLEAN : LoginResponse(id, o, e)
  \/ \E i \in Msgs, r \in Statuses \cup {0}, b \in Bodies : Response(i, r, b)
  \/ \E i \in Msgs : Body(i)

SpecPersistence == InitPersistence /\ [][NextPersistence]_vars

(***************************************************************************)
(* SpecBackoff: the transport events after any number of connection        *)
(* attempts that failed in a row.  Each such attempt leaves a closed socket *)
(* behind, adds one to reconnectAttempts and ends with a new socket         *)
(* connecting; closed sockets receive no further event, so the first state  *)
(* numbers the connecting socket 1 and draws reconnectAttempts.             *)
(***************************************************************************)
InitBackoff ==
  /\ cfg = [key |-> TRUE, host |-> FALSE, creds |-> TRUE]
  /\ store = {}
  /\ socket = 1
  /\ readyState = [s \in Sockets |-> IF s = 1 THEN "CONNECTING" ELSE "NONE"]
  /\ isSocketOpen = FALSE
  /\ minutesWaited = 0
  /\ reconnectTimer = FALSE
  /\ timeouts = <<>>
  /\ reconnectAttempts \in 0..MaxAttempts
  /\ inactivityTimer = FALSE
  /\ inactivityIntervals = 0
  /\ pingTimer = FALSE
  /\ pingIntervals = 0
  /\ subscriptions = [s \in Sockets |-> 0]
  /\ missingCmsHostWarned = FALSE
  /\ missingCmsCredsWarned = FALSE
  /\ cmsAuthToken = 0
  /\ pendingCmsLogin = 0
  /\ logins = [l \in Logins |-> "none"]
  /\ delivered = [l \in Logins |-> {}]
  /\ handlers = [i \in Msgs |-> IdleHandler]
  /\ nextMsg = 1
  /\ clock = 0
  /\ ticks = 0
  /\ unhandledRejection = FALSE
  /\ alive = TRUE

NextBackoff ==
  \/ \E s \in Sockets : handleOpen(s)
  \/ \E s \in Sockets : handleClose(s)
  \/ \E s \in Sockets : handleError(s)
  \/ \E k \in 1..MaxSockets : ReconnectTimerFires(k)

SpecBackoff == InitBackoff /\ [][NextBackoff]_vars

\* SpecBackoff with the scheduling of the runtime: the callback of an armed
\* timeout is eventually run
SpecRecovery ==
  /\ InitBackoff
  /\ [][NextBackoff]_vars
  /\ WF_vars(\E k \in 1..MaxSockets : ReconnectTimerFires(k))

\* the CMS is configured and every downstream request succeeds
InitHappy ==
  /\ cfg = [key |-> TRUE, host |-> TRUE, creds |-> TRUE]
  /\ store = {}
  /\ InitState

NextHappy ==
  \/ handleOpen(1)
  \/ Tick
  \/ InactivityTick
  \/ \E data \in Inputs : handleMessage(1, data)
  \/ \E id \in Logins : LoginResponse(id, "token", FALSE)
  \/ \E i \in Msgs : Response(i, 200, IF handlers[i].stage = "query" THEN "ok" ELSE "none")
  \/ \E i \in Msgs : Body(i)

SpecHappy == InitHappy /\ [][NextHappy]_vars

\* ------------------------------------------------------------------ claims

OpenConnections == {s \in Sockets : readyState[s] \in {"CONNECTING", "OPEN"}}

\* C1: in every reachable state at most one websocket connection
\* (connecting or open) exists.
AtMostOneConnection == Cardinality(OpenConnections) <= 1

\* C2: at most one login request is in flight; it is the one pendingCmsLogin
\* refers to; every caller that awaits a login awaits that one; and all the
\* awaiters of one login promise receive one and the same outcome.
SingleFlightLogin ==
  /\ Cardinality({l \in Logins : logins[l] = "inflight"}) <= 1
  /\ \A l \in Logins : logins[l] = "inflight" => pendingCmsLogin = l
  /\ \A i \in Msgs : handlers[i].pc \in Waits =>
        /\ handlers[i].login = pendingCmsLogin
        /\ pendingCmsLogin # 0
        /\ logins[pendingCmsLogin] = "inflight"
  /\ \A l \in Logins :
        /\ Cardinality(delivered[l]) <= 1
        /\ logins[l] = "ok" => delivered[l] = {l}
        /\ logins[l] = "fail" => delivered[l] = {0}

\* two callers, one of them a re-authentication of performAuthorizedRequest,
\* await the same login
SharedLoginReached ==
  \E i, j \in Msgs :
    /\ handlers[i].pc = "par_reauth_wait"
    /\ handlers[j].pc = "auth_wait"
    /\ handlers[i].login = handlers[j].login

\* C3: one call of performAuthorizedRequest calls requestFactory at most
\* twice; the second call happens exactly when the first response was 401/403
\* and the re-authentication succeeded; after the second call there is no
\* further re-authentication.
AtMostTwoCalls ==
  \A i \in Msgs :
    LET h == handlers[i] IN
    /\ h.calls <= 2
    /\ h.calls = 2 => (h.first \in AuthFail /\ h.reauth = "ok")
    /\ h.reauth = "ok" => h.calls = 2
    /\ h.pc = "par_reauth_wait" => (h.calls = 1 /\ h.first \in AuthFail)
    /\ h.pc = "body_wait" => h.ret \in Statuses
    /\ (h.pc = "body_wait" /\ h.calls = 1) => (h.ret = h.first /\ h.ret \notin AuthFail)

\* the retried call was answered 401/403 and that response was returned
RetryAuthFailReturned ==
  \E i \in Msgs :
    /\ handlers[i].pc = "body_wait"
    /\ handlers[i].calls = 2
    /\ handlers[i].ret \in AuthFail

\* C4: two persistence paths are never in progress at once.
OneMessageAtATime ==
  Cardinality({i \in Msgs : Running(handlers[i])}) <= 1

\* C5: at most one reconnect timer is armed, and while one is armed no step
\* arms another or alters it: it stays as it is until it fires.
OneReconnectTimer ==
  [][/\ Len(timeouts') <= 1
     /\ timeouts # <<>> => timeouts' \in {timeouts, <<>>}
     /\ reconnectTimer' <=> timeouts' # <<>>]_vars

\* the first socket failed before opening: its error and its close both
\* called scheduleReconnect, and one timer is armed
ErrorThenCloseReached ==
  /\ cfg.key
  /\ socket = 1
  /\ readyState[1] = "CLOSED"
  /\ subscriptions[1] = 0
  /\ Len(timeouts) = 1

\* C6: with every downstream request succeeding and no prior history, the
\* first report is persisted, and no identical report that arrived after it
\* within 6 hours is persisted as well.
EndToEndDedup ==
  /\ handlers[1].pc = "done" => handlers[1].outcome = "persisted"
  /\ \A d1, d2 \in store :
       (d1.by # 0 /\ d1.by < d2.by /\ d1.location = d2.location)
         => d2.arrived - d1.arrived >= RecentHours

\* the query of handler i succeeded and its body was parsed; h is the handler
\* before the step that decides
Decides(i) ==
  /\ handlers[i].pc = "body_wait"
  /\ handlers[i].stage = "query"
  /\ IsOk(handlers[i].ret)
  /\ handlers[i].body = "ok"
  /\ handlers'[i] # handlers[i]

\* C7: a returned entry created more than 6 and less than 12 hours ago whose
\* location is the pair the write path stores for the report's coordinates
\* makes the report rejected; when no returned entry has that location and
\* none is within 6 hours the report is allowed.
LocationRule ==
  [][\A i \in Msgs :
       LET h == handlers[i] IN
       Decides(i) =>
         /\ (\E d \in h.docs : /\ d.location = WrittenLocation(h.pr)
                               /\ d.createdAt < h.now - RecentHours
                               /\ d.createdAt > h.now - WindowHours)
              => handlers'[i].decision = "reject"
         /\ (\A d \in h.docs : /\ d.location # WrittenLocation(h.pr)
                               /\ d.createdAt < h.now - RecentHours)
              => handlers'[i].decision = "allow"]_vars

\* C8: when the query succeeded and a returned entry was created within the
\* last 6 hours, the report is rejected and handleMessage ends without a
\* write request, whatever the coordinates.
RecencyRule ==
  [][\A i \in Msgs :
       LET h == handlers[i] IN
       (Decides(i) /\ \E d \in h.docs : d.createdAt >= h.now - RecentHours)
         => /\ handlers'[i].decision = "reject"
            /\ handlers'[i].pc = "done"
            /\ store' = store]_vars

\* a report was rejected by the recency rule
RecentRejectReached ==
  \E i \in Msgs : handlers[i].outcome = "skipped_recent"

\* C9: whenever the history query failed, the report is allowed and the
\* write is attempted.
FailOpen ==
  \A i \in Msgs : handlers[i].qfail => handlers[i].decision = "allow"

\* C10: no failure of the persistence path is left unhandled and nothing
\* ends the process.
NoUnhandledFailure == ~unhandledRejection /\ alive

\* a message that is not JSON, or is JSON without Message.PositionReport
Malformed == {d \in Inputs : d.kind # "PositionReport"}

\* C11 as stated: handling a malformed message leaves the open/closed status,
\* the reconnect attempts, the reconnect timer and the inactivity value as
\* they were, and issues no login, no query and no write.
MalformedChangesNothing ==
  [][(\E s \in Sockets, d \in Malformed : handleMessage(s, d))
       => UNCHANGED <<isSocketOpen, reconnectAttempts, reconnectTimer, timeouts,
                      minutesWaited, sessVars, store>>]_vars

\* C11, amended: handling a malformed message leaves the open/closed status,
\* the reconnect attempts and the reconnect timer as they were and issues no
\* login, no query and no write; the inactivity value is left as it was when
\* the message is not JSON and is zero afterwards when it is JSON without a
\* position report.
MalformedFrame ==
  [][\A s \in Sockets, d \in Malformed :
       handleMessage(s, d)
         => /\ UNCHANGED <<isSocketOpen, reconnectAttempts, reconnectTimer,
                           timeouts, sessVars, store>>
            /\ d.kind = "invalid_json" => minutesWaited' = minutesWaited
            /\ d.kind = "other_shape" => minutesWaited' = 0]_vars

\* after the monitor had counted, a message without a position report was
\* handled: the inactivity value is zero again and no persistence path began
MalformedHandledReached ==
  /\ cfg.host
  /\ ticks > 0
  /\ minutesWaited = 0
  /\ nextMsg = 1
  /\ \A l \in Logins : logins[l] = "none"

\* the delay after n reconnects: 1000 ms, doubled by each reconnect, at most
\* 30000 ms
RECURSIVE Backoff(_)
Backoff(n) == IF n = 0 THEN 1000 ELSE Min(30000, 2 * Backoff(n - 1))

\* a socket opens in this step
Opens == \E s \in Sockets : readyState[s] = "CONNECTING" /\ readyState'[s] = "OPEN"

\* C12: a reconnect is scheduled with delay min(30000, 1000 * 2^n), n being
\* reconnectAttempts; n grows by one when a scheduled reconnect fires, is
\* zero after an open and is changed by no other step (no close, no error);
\* the delay does not decrease in n, never exceeds 30000, is 1000 at n = 0
\* and 30000 at n = 5 and n = 10.
BackoffRule ==
  [][/\ Len(timeouts') > Len(timeouts)
          => /\ timeouts'[Len(timeouts')] = Backoff(reconnectAttempts)
             /\ timeouts'[Len(timeouts')] <= 30000
     /\ socket' # socket => reconnectAttempts' = reconnectAttempts + 1
     /\ Opens => reconnectAttempts' = 0
     /\ (socket' = socket /\ ~Opens) => reconnectAttempts' = reconnectAttempts
     /\ \A n \in 0..MaxAttempts :
          /\ ReconnectDelay(n) <= ReconnectDelay(n + 1)
          /\ ReconnectDelay(n) <= 30000
     /\ ReconnectDelay(0) = 1000
     /\ ReconnectDelay(5) = 30000
     /\ ReconnectDelay(10) = 30000]_vars

\* after five reconnects an error and a close arrived: one reconnect is
\* scheduled, at the cap
CappedDelayReached ==
  /\ reconnectAttempts = 5
  /\ timeouts = <<30000>>
  /\ \E s \in Sockets : readyState[s] = "CLOSED"

\* C13: the inactivity counter is zero right after a message that parses as
\* JSON is handled and right after a connection opens, whatever it was
\* before; a message that does not parse leaves it as it was.
InactivityReset ==
  [][/\ \A s \in Sockets, d \in Inputs :
          handleMessage(s, d)
            => minutesWaited' = IF d.kind = "invalid_json" THEN minutesWaited ELSE 0
     /\ Opens => minutesWaited' = 0]_vars

\* the monitor of the first connection had counted and a parsed message has
\* reset the counter
ResetByMessageReached ==
  /\ socket = 1
  /\ readyState[1] = "OPEN"
  /\ ticks > 0
  /\ minutesWaited = 0

\* an open socket receives its error event (OPEN to CLOSING) or its close
\* event (OPEN to CLOSED) in this step
LeavesOpen ==
  \E s \in Sockets : readyState[s] = "OPEN" /\ readyState'[s] \in {"CLOSING", "CLOSED"}

\* C14: when the open connection receives a close or an error, the status
\* flag becomes disconnected, no inactivity interval and no ping interval is
\* left running, and a reconnect is scheduled.
TeardownOnCloseOrError ==
  [][LeavesOpen => /\ ~isSocketOpen'
                   /\ inactivityIntervals' = 0
                   /\ pingIntervals' = 0
                   /\ reconnectTimer'
                   /\ timeouts' # <<>>]_vars

\* C15: at most one inactivity interval and at most one ping interval is
\* running, and none is running unless the current socket is open.
TimersOnlyWhileOpen ==
  /\ inactivityIntervals <= 1
  /\ pingIntervals <= 1
  /\ (inactivityIntervals > 0 \/ pingIntervals > 0) => readyState[socket] = "OPEN"

\* a socket fails or closes in this step
Disconnects ==
  \E s \in Sockets : /\ readyState[s] \in {"CONNECTING", "OPEN", "CLOSING"}
                      /\ readyState'[s] \in {"CLOSING", "CLOSED"}
                      /\ readyState'[s] # readyState[s]

\* C16: there is always a connection connecting or open, or a reconnect
\* timer pending; every error and every close leaves a reconnect timer
\* pending; and a pending timer is followed by a new connection attempt (as
\* long as the model has a socket left to create).
AlwaysRecovers ==
  /\ [](OpenConnections # {} \/ timeouts # <<>>)
  /\ [][Disconnects => timeouts' # <<>>]_vars
  /\ \A n \in 1..(MaxSockets - 1) :
       (socket = n /\ timeouts # <<>>) ~> (socket > n)

\* the first attempt failed before opening and a second attempt followed
SecondAttemptReached ==
  /\ readyState[1] = "CLOSED"
  /\ subscriptions[1] = 0
  /\ socket = 2
  /\ readyState[2] = "CONNECTING"

\* the request handler i is waiting for is answered 401 or 403 in this step:
\* the first attempt leads to the re-authentication, the retried attempt is
\* returned to the caller
AnsweredAuthFail(i) ==
  /\ handlers[i].pc = "req_wait"
  /\ \/ handlers'[i].pc = "par_reauth_wait"
     \/ handlers'[i].pc = "body_wait" /\ handlers'[i].ret \in AuthFail

\* C17: after a request of performAuthorizedRequest is answered 401 or 403,
\* on the first or on the retried attempt, the token it was sent with is not
\* the cached token.
InvalidatedOnAuthFail ==
  [][\A i \in Msgs :
       AnsweredAuthFail(i) => cmsAuthToken' # handlers[i].tokenSent]_vars

\* the login that handler i awaits for its re-authentication fails in this step
ReauthFails(i) ==
  /\ handlers[i].pc = "par_reauth_wait"
  /\ logins[handlers[i].login] = "inflight"
  /\ logins'[handlers[i].login] = "fail"

\* C18: when the re-authentication after a first 401/403 produces no token,
\* the call fails with the missing-token-after-re-authentication error (for a
\* write, handleMessage ends with that error), the request is not issued a
\* second time and the call attempts no further login.
ExplicitReauthError ==
  [][\A i \in Msgs :
       ReauthFails(i) =>
         /\ handlers'[i].pc # "req_wait"
         /\ handlers'[i].pc # "par_reauth_wait"
         /\ handlers[i].stage = "write"
              => /\ handlers'[i].pc = "done"
                 /\ handlers'[i].outcome = "missing_token_after_reauth"]_vars

\* C18, amended: when the re-authentication after a first 401/403 produces
\* no token, the call fails with the error of the login (for a write,
\* handleMessage ends with that error; for the query, the duplicate check
\* fails open and the write begins as a new call), the request is not issued
\* a second time and the call attempts no further login.
ReauthFailureEndsCall ==
  [][\A i \in Msgs :
       ReauthFails(i) =>
         /\ handlers'[i].pc # "req_wait"
         /\ handlers'[i].pc # "par_reauth_wait"
         /\ handlers[i].stage = "write"
              => /\ handlers'[i].pc = "done"
                 /\ handlers'[i].outcome = "reauth_login_failed"
         /\ handlers[i].stage = "query"
              => /\ handlers'[i].stage = "write"
                 /\ handlers'[i].calls = 0
                 /\ handlers'[i].qfail]_vars

\* a write was answered 401/403 and the login of its re-authentication failed
ReauthFailedReached ==
  \E i \in Msgs : handlers[i].outcome = "reauth_login_failed"

\* C19: a socket that opens is sent exactly one subscription when an API key
\* is configured and none otherwise, and no subscription is sent to any
\* socket in any other step.
SubscribedOncePerOpen ==
  [][\A s \in Sockets :
       IF readyState[s] = "CONNECTING" /\ readyState'[s] = "OPEN"
       THEN subscriptions'[s] = subscriptions[s] + (IF cfg.key THEN 1 ELSE 0)
       ELSE subscriptions'[s] = subscriptions[s]]_vars

\* C20: pendingCmsLogin never refers to a settled login, and when a report
\* arrives after a failed login with no token cached and no login in flight,
\* its ensureCmsSession call sends a new login request and awaits that one.
NeverWedged ==
  /\ [](pendingCmsLogin # 0 => logins[pendingCmsLogin] = "inflight")
  /\ [][LET afterFailure ==
               /\ nextMsg' = nextMsg + 1
               /\ cfg.creds
               /\ cmsAuthToken = 0
               /\ \E f \in Logins : logins[f] = "fail"
               /\ \A g \in Logins : logins[g] # "inflight"
         IN afterFailure
              => \E l \in Logins :
                   /\ logins[l] = "none"
                   /\ logins'[l] = "inflight"
                   /\ pendingCmsLogin' = l
                   /\ handlers'[nextMsg].pc = "auth_wait"
                   /\ handlers'[nextMsg].login = l]_vars

\* after a failed login, a later report alone awaits a login that it started
FreshLoginReached ==
  \E i \in Msgs :
    /\ handlers[i].pc = "auth_wait"
    /\ handlers[i].login # 0
    /\ logins[handlers[i].login] = "inflight"
    /\ \E l \in Logins : l < handlers[i].login /\ logins[l] = "fail"
    /\ \A j \in Msgs \ {i} : handlers[j].pc \notin Waits

\* handler i issues a downstream request in this step
Issues(i) ==
  /\ handlers'[i].pc = "req_wait"
  /\ <<handlers'[i].pc, handlers'[i].stage, handlers'[i].calls>>
       # <<handlers[i].pc, handlers[i].stage, handlers[i].calls>>

\* C21: every downstream request carries the token cached when it is issued;
\* the retried request carries the token of the login the re-authentication
\* awaited, never the token of the first attempt.
CarriesCachedToken ==
  [][\A i \in Msgs :
       Issues(i) =>
         /\ handlers'[i].tokenSent = cmsAuthToken'
         /\ handlers'[i].tokenSent # 0
         /\ handlers[i].pc = "par_reauth_wait"
              => /\ handlers'[i].calls = 2
                 /\ handlers'[i].tokenSent = handlers[i].login
                 /\ handlers'[i].tokenSent # handlers[i].tokenSent]_vars

\* a retried history query and a retried write are in flight, the write with
\* the token that is cached now
RetriedBothReached ==
  \E i, j \in Msgs :
    /\ handlers[i].pc = "req_wait" /\ handlers[i].stage = "query"
    /\ handlers[i].calls = 2
    /\ handlers[j].pc = "req_wait" /\ handlers[j].stage = "write"
    /\ handlers[j].calls = 2
    /\ handlers[j].tokenSent = cmsAuthToken

====
